---- MODULE Spec2Model ----
(***************************************************************************)
(* A model of elefant/data/annotation_action_mapping.py: the camera        *)
(* quantizer, the event decoder and the action transformer.                *)
(*                                                                         *)
(* Numbers.  Camera deltas are reals in the program.  The model measures   *)
(* them in units of 1/Units of a degree, so a delta is an integer number   *)
(* of units, every value on that grid is a binary fraction a float holds   *)
(* exactly when Units is a power of two, and the arithmetic of the linear  *)
(* scheme is exact.  Bin indices are plain integers.                       *)
(***************************************************************************)
EXTENDS Integers, Sequences, FiniteSets, TLC

\* ------------------------------------------------------------------ bounds
\* Units per degree of the input grid (2: half degrees, where the ties are).
Units == 2
\* Largest camera_maxval, camera_binsize and mu a quantizer is built with.
MaxMaxval == 2
MaxBinsize == 3
MaxMu == 1
\* Most annotation_action_to_env_action calls in one run.
MaxCalls == 3
\* Largest batch axis of an EnvAction handed to the ActionTransformer.
MaxBatch == 2
\* Most records handed to batch_recursive_objects in one list.
MaxRecords == 2
\* Largest mu of a mu-law quantizer built with the ActionTransformer's ranges.
MaxMuLaw == 14
\* Most videos listed under the prefixes, and the largest n_threads.
MaxVideos == 2
MaxThreads == 2

\* --------------------------------------------------------------- variables
VARIABLES
    quantizer,   \* the CameraQuantizer under test: its attributes, or NoQuantizer
    ctor,        \* the last constructor call: its arguments and its outcome
    d_prev,      \* the discretize call before the last one: input and result
    d_last,      \* the last discretize call: input and result
    u_last,      \* undiscretize of d_last's bin, once called: the bin, its delta, the result
    dicts,       \* the heap's dict objects: id -> [buttons, camera (an array id)]
    arrays,      \* the heap's numpy arrays: id -> <<pitch, yaw>>
    tables,      \* KEYBOARD_BUTTON_MAPPING and IGNORED_KEYS
    ncalls,      \* annotation_action_to_env_action calls made so far
    kept,        \* the first returned EnvAction, which the caller still holds, as returned
    last,        \* the last call: its event and what it returned
    transformer, \* the ActionTransformer: its instance attributes
    at_in,       \* the batched EnvAction handed to the transformer
    a2p,         \* env2policy(at_in): outcome and PolicyAction
    d2n,         \* dict_to_numpy(one record of at_in): outcome and PolicyAction
    p2e,         \* policy2env(a2p's PolicyAction): outcome and EnvAction
    n2d,         \* numpy_to_dict(a PolicyAction of any button length): input, outcome, EnvAction
    bat,         \* batch_recursive_objects(ls, check_shape): arguments, outcome, result
    config,      \* RescaleConfig: n_threads and overwrite_older_than
    bucket,      \* the data bucket: per video, its rescaled output object
    bucket0,     \* the bucket as it was when the Rescaler was constructed
    rescaler,    \* the Rescaler's counters and the holder of _wandb_lock
    wandb_log,   \* the triples handed to wandb.log, in order
    main,        \* Rescaler.run: its position, loop index and handled futures
    tasks        \* per video, its _check_and_rescale_video call

qvars == <<quantizer, ctor, d_prev, d_last, u_last>>

evars == <<dicts, arrays, tables, ncalls, kept, last>>

avars == <<transformer, at_in, a2p, d2n, p2e>>

pvars == <<n2d>>

bvars == <<bat>>

rvars == <<config, bucket, bucket0, rescaler, wandb_log, main, tasks>>

nvars == <<pvars, bvars, rvars>>

vars == <<qvars, evars, avars, nvars>>

\* ------------------------------------------------------------ QuantizationScheme
LINEAR == "linear"
MU_LAW == "mu_law"

\* ------------------------------------------------------------------ helpers
Abs(n) == IF n < 0 THEN -n ELSE n

Sign(n) == IF n < 0 THEN -1 ELSE IF n > 0 THEN 1 ELSE 0

Min(a, b) == IF a < b THEN a ELSE b

Max(a, b) == IF a > b THEN a ELSE b

RECURSIVE Pow(_, _)
Pow(a, n) == IF n = 0 THEN 1 ELSE a * Pow(a, n - 1)

\* Natural numbers of any size, as their digits in base 10000, the lowest
\* first: the powers compared below do not fit a machine integer.
RECURSIVE BigFromInt(_)
BigFromInt(n) == IF n < 10000 THEN <<n>> ELSE <<n % 10000>> \o BigFromInt(n \div 10000)

\* The digits of x * k + carry from digit i on (0 < k < 200000).
RECURSIVE BigMulFrom(_, _, _, _)
BigMulFrom(x, k, i, carry) ==
    IF i > Len(x)
    THEN (IF carry = 0 THEN <<>> ELSE BigFromInt(carry))
    ELSE LET t == x[i] * k + carry
         IN  <<t % 10000>> \o BigMulFrom(x, k, i + 1, t \div 10000)

\* x * k^n
RECURSIVE BigPowTimes(_, _, _)
BigPowTimes(x, k, n) == IF n = 0 THEN x ELSE BigPowTimes(BigMulFrom(x, k, 1, 0), k, n - 1)

RECURSIVE BigCmpAt(_, _, _)
BigCmpAt(x, y, i) ==
    IF i = 0 THEN 0
    ELSE IF x[i] # y[i] THEN Sign(x[i] - y[i])
    ELSE BigCmpAt(x, y, i - 1)

\* The sign of x - y.
BigCmp(x, y) == IF Len(x) # Len(y) THEN Sign(Len(x) - Len(y)) ELSE BigCmpAt(x, y, Len(x))

\* The sign of a^p - b^q * c^r, for a, b, c > 0.
ComparePowers(a, p, b, q, c, r) ==
    BigCmp(BigPowTimes(<<1>>, a, p), BigPowTimes(BigPowTimes(<<1>>, b, q), c, r))

\* np.clip(x, lo, hi) is minimum(hi, maximum(x, lo)), also when lo > hi.
Clip(x, lo, hi) == Min(hi, Max(x, lo))

\* np.round of the rational num/den (den > 0): to the nearest integer, a tie
\* (num/den = k + 1/2) to the even neighbour.
RoundHalfEven(num, den) ==
    LET q == num \div den
        r == num - q * den
    IN  IF 2 * r < den THEN q
        ELSE IF 2 * r > den THEN q + 1
        ELSE IF q % 2 = 0 THEN q ELSE q + 1

\* ------------------------------------------------------------ CameraQuantizer
NoQuantizer == [live |-> FALSE, camera_maxval |-> 0, camera_binsize |-> 0,
                quantization_scheme |-> "", mu |-> 0]

\* The attrs-generated __init__: the only validator is in_([LINEAR, MU_LAW]) on
\* quantization_scheme; camera_maxval, camera_binsize and mu are stored as given.
CameraQuantizerAccepts(args) == args.quantization_scheme \in {LINEAR, MU_LAW}

CameraQuantizer(args) ==
    [live |-> TRUE, camera_maxval |-> args.camera_maxval,
     camera_binsize |-> args.camera_binsize,
     quantization_scheme |-> args.quantization_scheme, mu |-> args.mu]

\* Whether discretize's float arithmetic stays finite.  A zero camera_binsize
\* divides by zero; in the mu-law branch a zero camera_maxval gives 0/0 and
\* mu = 0 gives log(1)/log(1) = 0/0.  np.round of inf or nan is inf or nan and
\* its astype(np.int64) is whatever the platform's cast produces.
DiscretizeFinite(q) ==
    /\ q.camera_binsize # 0
    /\ q.quantization_scheme = MU_LAW => (q.camera_maxval # 0 /\ q.mu >= 1)

\* The sign of 2*v - w2, where v = |maxval| * sign(x) * ln(1 + mu*a) / ln(1 + mu)
\* with a = |x| / |maxval| in [0, 1] is the mu-law encoding (times maxval) of the
\* clipped delta x (in units), and w2 is an integer.  For 0 < w2 < 2*|maxval| and
\* x > 0 it is the sign of (1 + mu*a)^(2*|maxval|) - (1 + mu)^w2, computed in
\* integers after multiplying by (|maxval| * Units)^(2*|maxval|).
MuLawCompare(q, x, w2) ==
    LET m == Abs(q.camera_maxval)
        n == Abs(x)
        s == Sign(x)
        t == s * w2
    IN  IF s = 0 THEN Sign(0 - w2)
        ELSE IF t <= 0 THEN s
        ELSE IF t >= 2 * m THEN (IF n = m * Units /\ t = 2 * m THEN 0 ELSE -s)
        ELSE s * ComparePowers(m * Units + q.mu * n, 2 * m, 1 + q.mu, t, m * Units, 2 * m)

\* np.round((v + maxval) / |binsize|) for the mu-law encoded v: the integer k with
\* k - 1/2 <= (v + maxval)/|binsize| <= k + 1/2, a tie to the even neighbour.
\* (v + maxval)/|binsize| lies in [lo, hi]; each k whose lower threshold
\* (2k-1)*|binsize|/2 - maxval is below v adds one to lo.
MuLawRound(q, x) ==
    LET m == Abs(q.camera_maxval)
        b == Abs(q.camera_binsize)
        lo == ((q.camera_maxval - m) \div b) - 1
        hi == ((q.camera_maxval + m) \div b) + 1
        Above(k) == LET c == MuLawCompare(q, x, (2 * k - 1) * b - 2 * q.camera_maxval)
                    IN  c > 0 \/ (c = 0 /\ k % 2 = 0)
    IN  lo + Cardinality({k \in (lo + 1) .. hi : Above(k)})

discretize_mutant_reversed(q, xy) ==
    LET x == Clip(xy, (0 - q.camera_maxval) * Units, q.camera_maxval * Units)
        b == q.camera_binsize
    IN  Sign(b) * RoundHalfEven(q.camera_maxval * Units - x, Abs(b) * Units)

discretize_mutant_no_compress(q, xy) ==
    LET x == Clip(xy, (0 - q.camera_maxval) * Units, q.camera_maxval * Units)
        b == q.camera_binsize
    IN  Sign(b) * RoundHalfEven(x + q.camera_maxval * Units, Abs(b) * Units)

\* CameraQuantizer.discretize on one component xy (in units); DiscretizeFinite(q).
\* round(-t) = -round(t), so a negative camera_binsize is taken out as a sign.
discretize(q, xy) ==
    LET x == Clip(xy, (0 - q.camera_maxval) * Units, q.camera_maxval * Units)
        b == q.camera_binsize
    IN  IF q.quantization_scheme = MU_LAW
        THEN Sign(b) * MuLawRound(q, x)
        ELSE Sign(b) * RoundHalfEven(x + q.camera_maxval * Units, Abs(b) * Units)

undiscretize_mutant_no_shift(q, bin) ==
    [lin |-> bin * q.camera_binsize * Units,
     expanded |-> q.quantization_scheme = MU_LAW]

\* CameraQuantizer.undiscretize on one bin index.  lin is bin*binsize - maxval in
\* units, exact.  With expanded = FALSE (linear) that is the result; with
\* expanded = TRUE (mu-law) the result is the real number
\* sign(lin) * maxval * ((1 + mu)^(|lin|/maxval) - 1) / mu, kept in this form.
undiscretize(q, bin) ==
    [lin |-> (bin * q.camera_binsize - q.camera_maxval) * Units,
     expanded |-> q.quantization_scheme = MU_LAW]

\* ---------------------------------------------------------- quantizer: state
Schemes == {LINEAR, MU_LAW, "log"}

QuantizerArgs ==
    [camera_maxval : -1 .. MaxMaxval, camera_binsize : -1 .. MaxBinsize,
     quantization_scheme : Schemes, mu : 0 .. MaxMu]

\* Deltas offered to discretize: the range of the largest quantizer and one
\* degree beyond it on either side.
Deltas == ((0 - (MaxMaxval + 1)) * Units) .. ((MaxMaxval + 1) * Units)

NoCall == [called |-> FALSE, xy |-> 0, finite |-> TRUE, bin |-> 0]

NoDecode == [called |-> FALSE, xy |-> 0, bin |-> 0, lin |-> 0, expanded |-> FALSE]

NoCtor == [called |-> FALSE, args |-> NoQuantizer, outcome |-> "none"]

QuantizerInit ==
    /\ quantizer = NoQuantizer
    /\ ctor = NoCtor
    /\ d_prev = NoCall
    /\ d_last = NoCall
    /\ u_last = NoDecode

\* ------------------------------------------------- elefant.data.const tables
\* Buttons.ALL, the vocabulary, in encoding order.
ButtonsALL == <<"forward", "attack", "use">>

ButtonNames == {ButtonsALL[i] : i \in 1 .. Len(ButtonsALL)}

\* KEYBOARD_BUTTON_MAPPING: keyboard key -> button name.
KEYBOARD_BUTTON_MAPPING == [k \in {"key.keyboard.w"} |-> "forward"]

\* IGNORED_KEYS: keys skipped without a diagnostic.
IGNORED_KEYS == {"key.keyboard.escape"}

\* CAMERA_SCALER = 0.15 degrees per mouse unit, as the fraction 3/20.
CAMERA_SCALER_NUM == 3

CAMERA_SCALER_DEN == 20

\* NOOP_ACTION: every button 0; its camera entry is the array with id 0.
NOOP == 0

NOOP_ACTION == [buttons |-> [b \in ButtonNames |-> 0], camera |-> NOOP]

\* --------------------------------------------------- ProtoToTorchActionMapper
\* The first lines of annotation_action_to_env_action: env_action is a shallow
\* copy of NOOP_ACTION under the fresh dict id, and its camera entry is
\* replaced by a fresh np.array([0, 0]) under the fresh array id.
NewEnvAction_mutant_shared_camera(ds, as, id) ==
    [dicts |-> [i \in DOMAIN ds \cup {id} |-> IF i = id THEN ds[NOOP] ELSE ds[i]],
     arrays |-> as]

NewEnvAction(ds, as, id) ==
    [dicts |-> [i \in DOMAIN ds \cup {id} |->
                   IF i = id THEN [ds[NOOP] EXCEPT !.camera = id] ELSE ds[i]],
     arrays |-> [i \in DOMAIN as \cup {id} |-> IF i = id THEN <<0, 0>> ELSE as[i]]]

\* The buttons the key loop sets to 1: a key of the mapping sets its button; a
\* key in IGNORED_KEYS is skipped; any other key prints a line and is skipped.
KeyButtons(tb, keys) ==
    {tb.KEYBOARD_BUTTON_MAPPING[k] : k \in keys \cap DOMAIN tb.KEYBOARD_BUTTON_MAPPING}

\* The buttons the mouse block sets to 1: code 0 is attack, code 2 is use.
MouseButtons_mutant_pick_item(buttons) ==
    (IF 0 \in buttons THEN {"attack"} ELSE {}) \cup (IF 1 \in buttons THEN {"use"} ELSE {})

MouseButtons(buttons) ==
    (IF 0 \in buttons THEN {"attack"} ELSE {}) \cup (IF 2 \in buttons THEN {"use"} ELSE {})

\* Storing the float d * CAMERA_SCALER into the int64 array np.array([0, 0])
\* casts it: the fraction is cut off, towards zero.
CastInt64(num, den) == Sign(num) * (Abs(num) \div den)

\* One camera component from one mouse delta: scaled and stored when the delta
\* is non-zero, 0 otherwise; then reset to 0 when the stored value is beyond 180.
CameraComponent(d) ==
    LET stored == IF d # 0 THEN CastInt64(d * CAMERA_SCALER_NUM, CAMERA_SCALER_DEN) ELSE 0
    IN  IF Abs(stored) > 180 THEN 0 ELSE stored

\* is_null_action: cleared by a mapped key, a non-zero dy or dx, mouse button 0
\* or mouse button 2.
IsNullAction_mutant_keys_ignored(tb, ev) ==
    /\ ev.dy = 0
    /\ ev.dx = 0
    /\ MouseButtons(ev.buttons) = {}

IsNullAction_mutant_mouse_ignored(tb, ev) ==
    /\ KeyButtons(tb, ev.keys) = {}
    /\ ev.dy = 0
    /\ ev.dx = 0

IsNullAction(tb, ev) ==
    /\ KeyButtons(tb, ev.keys) = {}
    /\ ev.dy = 0
    /\ ev.dx = 0
    /\ MouseButtons(ev.buttons) = {}

\* annotation_action_to_env_action(json_action) on the heap (ds, as), the new
\* objects getting the id `id`: the heap after the call, the id of the returned
\* dict and the returned is_null_action.
annotation_action_to_env_action(ds, as, tb, id, ev) ==
    LET new == NewEnvAction(ds, as, id)
        pressed == KeyButtons(tb, ev.keys) \cup MouseButtons(ev.buttons)
        env == new.dicts[id]
        camera_action == env.camera
        after == [env EXCEPT !.buttons = [b \in DOMAIN @ |-> IF b \in pressed THEN 1 ELSE @[b]]]
    IN  [dicts |-> [new.dicts EXCEPT ![id] = after],
         arrays |-> [new.arrays EXCEPT ![camera_action] =
                         <<CameraComponent(ev.dy), CameraComponent(ev.dx)>>],
         env_action |-> id,
         is_null_action |-> IsNullAction(tb, ev)]

\* ------------------------------------------------------ event decoder: state
Keys == {"key.keyboard.w", "key.keyboard.escape", "key.keyboard.z"}

\* Mouse deltas: none; one that scales below 1 degree (0.15); the 13.5 degrees
\* of the worked example; 180.45 degrees; -181.05 degrees.
MouseDeltas == {0, 1, 90, 1203, -1207}

MouseButtonCodes == {0, 1, 2}

Events == [keys : SUBSET Keys, dx : MouseDeltas, dy : MouseDeltas,
           buttons : SUBSET MouseButtonCodes]

NoEvent == [keys |-> {}, dx |-> 0, dy |-> 0, buttons |-> {}]

\* What a dict of the heap holds, the camera array's contents included.
Value(ds, as, id) == [buttons |-> ds[id].buttons, camera |-> as[ds[id].camera]]

NoKept == [held |-> FALSE, id |-> NOOP, value |-> [buttons |-> NOOP_ACTION.buttons, camera |-> <<0, 0>>]]

NoLast == [called |-> FALSE, event |-> NoEvent, id |-> NOOP, is_null_action |-> TRUE]

EventInit ==
    /\ dicts = [i \in {NOOP} |-> NOOP_ACTION]
    /\ arrays = [i \in {NOOP} |-> <<0, 0>>]
    /\ tables = [KEYBOARD_BUTTON_MAPPING |-> KEYBOARD_BUTTON_MAPPING,
                 IGNORED_KEYS |-> IGNORED_KEYS]
    /\ ncalls = 0
    /\ kept = NoKept
    /\ last = NoLast

\* The objects still referenced after a call: NOOP_ACTION, the EnvAction the
\* caller holds, the one just returned, and their camera arrays.
Live(ds, ids) == [dicts |-> ids, arrays |-> {ds[i].camera : i \in ids}]

\* One call of annotation_action_to_env_action.  The caller goes on holding
\* the first EnvAction it was returned and the one just returned; the ones in
\* between are dropped and collected.
Call(ev) ==
    /\ ncalls < MaxCalls
    /\ LET r == annotation_action_to_env_action(dicts, arrays, tables, ncalls + 1, ev)
           k == IF kept.held THEN kept
                ELSE [held |-> TRUE, id |-> r.env_action,
                      value |-> Value(r.dicts, r.arrays, r.env_action)]
           live == Live(r.dicts, {NOOP, k.id, r.env_action})
       IN  /\ dicts' = [i \in live.dicts |-> r.dicts[i]]
           /\ arrays' = [i \in live.arrays |-> r.arrays[i]]
           /\ kept' = k
           /\ last' = [called |-> TRUE, event |-> ev, id |-> r.env_action,
                       is_null_action |-> r.is_null_action]
    /\ ncalls' = ncalls + 1
    /\ UNCHANGED <<tables, qvars, avars, nvars>>

\* The first call on the freshly imported module, on every event.
NextEv == \E ev \in Events : ncalls = 0 /\ Call(ev)

\* Sequences of calls, on the events with at most one key, at most one mouse
\* button, dx in {0, 90} and dy in {0, -1207}.
SeqEvents ==
    {ev \in Events : /\ Cardinality(ev.keys) <= 1
                     /\ Cardinality(ev.buttons) <= 1
                     /\ ev.dx \in {0, 90}
                     /\ ev.dy \in {0, -1207}}

NextEvSeq == \E ev \in SeqEvents : Call(ev)

\* ---------------------------------------------------------- ActionTransformer
\* The defaults of ActionTransformer.__init__.
DefaultCameraMaxval == 10

DefaultCameraBinsize == 2

DefaultCameraMu == 5

DefaultKwargs ==
    [camera_maxval |-> DefaultCameraMaxval, camera_binsize |-> DefaultCameraBinsize,
     quantization_scheme |-> LINEAR, mu |-> DefaultCameraMu]

\* ActionTransformer.__init__: the one attribute it sets is quantizer (the
\* store_args decorator that would have stored the arguments is commented out).
ActionTransformer(kwargs) ==
    [attrs |-> {"quantizer"}, quantizer |-> CameraQuantizer(kwargs)]

\* discretize_camera / undiscretize_camera on a <<pitch, yaw>> pair.
discretize_camera(t, xy) == <<discretize(t.quantizer, xy[1]), discretize(t.quantizer, xy[2])>>

undiscretize_camera(t, pq) == <<undiscretize(t.quantizer, pq[1]), undiscretize(t.quantizer, pq[2])>>

\* acs.get(k, default) on the buttons of an EnvAction.
Get(buttons, k, default) == IF k \in DOMAIN buttons THEN buttons[k] ELSE default

NoPolicy == [buttons |-> <<>>, camera |-> <<>>]

NoEnv == [buttons |-> <<>>, camera |-> <<>>]

\* ActionTransformer.dict_to_numpy on one unbatched EnvAction.  The buttons and
\* the camera are built first; then `if not self.human_spaces` reads an
\* attribute and raises AttributeError when the object has none of that name.
dict_to_numpy(t, acs) ==
    LET act == [buttons |-> [i \in 1 .. Len(ButtonsALL) |-> Get(acs.buttons, ButtonsALL[i], 0)],
                camera |-> discretize_camera(t, acs.camera)]
    IN  IF "human_spaces" \in t.attrs
        THEN [outcome |-> "returned", out |-> act]
        ELSE [outcome |-> "AttributeError", out |-> NoPolicy]

env2policy_mutant_sorted_names(t, acs) ==
    LET nbatch == Len(acs.camera)
        dummy == [n \in 1 .. nbatch |-> 0]
        sorted == <<"attack", "forward", "use">>
    IN  [outcome |-> "returned",
         out |-> [camera |-> [n \in 1 .. nbatch |-> discretize_camera(t, acs.camera[n])],
                  buttons |-> [n \in 1 .. nbatch |->
                                  [i \in 1 .. Len(sorted) |->
                                      Get(acs.buttons, sorted[i], dummy)[n]]]]]

\* ActionTransformer.env2policy on a batched EnvAction: camera[n] is record n's
\* <<pitch, yaw>>, buttons[k][n] its button k; the result's buttons[n][i] is the
\* np.stack(..., axis=-1) of the vocabulary's columns, an absent one all zeros.
env2policy(t, acs) ==
    LET nbatch == Len(acs.camera)
        dummy == [n \in 1 .. nbatch |-> 0]
    IN  [outcome |-> "returned",
         out |-> [camera |-> [n \in 1 .. nbatch |-> discretize_camera(t, acs.camera[n])],
                  buttons |-> [n \in 1 .. nbatch |->
                                  [i \in 1 .. Len(ButtonsALL) |->
                                      Get(acs.buttons, ButtonsALL[i], dummy)[n]]]]]

numpy_to_dict_mutant_no_assert(t, acs) ==
    [outcome |-> "returned",
     out |-> [buttons |-> [name \in {ButtonsALL[i] : i \in 1 .. Min(Len(ButtonsALL), Len(acs.buttons[1]))} |->
                              [n \in 1 .. Len(acs.buttons) |->
                                  acs.buttons[n][CHOOSE i \in 1 .. Len(ButtonsALL) :
                                                     ButtonsALL[i] = name]]],
              camera |-> [n \in 1 .. Len(acs.camera) |->
                             undiscretize_camera(t, acs.camera[n])]]]

\* ActionTransformer.numpy_to_dict on a batched PolicyAction: the assert on the
\* last axis of buttons, one column per vocabulary name, the camera decoded.
numpy_to_dict(t, acs) ==
    IF \E n \in 1 .. Len(acs.buttons) : Len(acs.buttons[n]) # Len(ButtonsALL)
    THEN [outcome |-> "AssertionError", out |-> NoEnv]
    ELSE [outcome |-> "returned",
          out |-> [buttons |-> [name \in ButtonNames |->
                                   [n \in 1 .. Len(acs.buttons) |->
                                       acs.buttons[n][CHOOSE i \in 1 .. Len(ButtonsALL) :
                                                          ButtonsALL[i] = name]]],
                   camera |-> [n \in 1 .. Len(acs.camera) |->
                                  undiscretize_camera(t, acs.camera[n])]]]

\* ActionTransformer.policy2env
policy2env(t, acs) == numpy_to_dict(t, acs)

\* ------------------------------------------------- action transformer: state
\* Camera records offered: the worked example (0, 13.5), two bin centres
\* (4, -10), two ties (1, -1), and (0.5, -11); in units.
CameraPairs ==
    {<<0, (27 * Units) \div 2>>, <<4 * Units, (0 - 10) * Units>>,
     <<Units, 0 - Units>>, <<Units \div 2, (0 - 11) * Units>>}

\* Batched EnvActions: any subset of the vocabulary's buttons, each a 0/1
\* column over the batch axis, and one camera record per batch element.
EnvActions ==
    UNION {[buttons : UNION {[names -> [1 .. nbatch -> {0, 1}]] : names \in SUBSET ButtonNames},
            camera : [1 .. nbatch -> CameraPairs]] : nbatch \in 1 .. MaxBatch}

\* Record n of a batched EnvAction, unbatched.
Element(acs, n) ==
    [buttons |-> [k \in DOMAIN acs.buttons |-> acs.buttons[k][n]], camera |-> acs.camera[n]]

NoResult == [called |-> FALSE, outcome |-> "none", n |-> 0, out |-> NoPolicy]

TransformerInit ==
    /\ transformer = ActionTransformer(DefaultKwargs)
    /\ at_in = [buttons |-> <<>>, camera |-> <<>>]
    /\ a2p = NoResult
    /\ d2n = NoResult
    /\ p2e = NoResult

\* transformer.env2policy(at_in)
Env2Policy ==
    /\ ~a2p.called
    /\ a2p' = [called |-> TRUE, n |-> 0] @@ env2policy(transformer, at_in)
    /\ UNCHANGED <<transformer, at_in, d2n, p2e, qvars, evars, nvars>>

\* transformer.dict_to_numpy(record n of at_in)
DictToNumpy(n) ==
    /\ ~d2n.called
    /\ d2n' = [called |-> TRUE, n |-> n] @@ dict_to_numpy(transformer, Element(at_in, n))
    /\ UNCHANGED <<transformer, at_in, a2p, p2e, qvars, evars, nvars>>

\* transformer.policy2env(the PolicyAction env2policy returned)
Policy2Env ==
    /\ a2p.called
    /\ a2p.outcome = "returned"
    /\ ~p2e.called
    /\ p2e' = [called |-> TRUE, n |-> 0] @@ policy2env(transformer, a2p.out)
    /\ UNCHANGED <<transformer, at_in, a2p, d2n, qvars, evars, nvars>>

NextAT ==
    \/ Env2Policy
    \/ \E n \in 1 .. Len(at_in.camera) : DictToNumpy(n)
    \/ Policy2Env

\* ------------------------------------------------------ numpy_to_dict: state
\* Camera bins offered to numpy_to_dict: the zero bin and an upper bin of the
\* default quantizer.
CameraBins == {0, 5, 7}

\* Batched PolicyActions whose button array has a last axis one shorter than,
\* as long as, or one longer than the vocabulary.
PolicyActions ==
    UNION {[buttons : [1 .. nbatch -> [1 .. len -> {0, 1}]],
            camera : [1 .. nbatch -> {<<y, x>> : y \in {0}, x \in CameraBins}]] :
               nbatch \in 1 .. MaxBatch,
               len \in (Len(ButtonsALL) - 1) .. (Len(ButtonsALL) + 1)}

NoDict == [called |-> FALSE, acs |-> NoPolicy, outcome |-> "none", out |-> NoEnv]

NumpyInit == n2d = NoDict

\* transformer.policy2env(acs) on a PolicyAction from anywhere
NumpyToDict(acs) ==
    /\ ~n2d.called
    /\ n2d' = [called |-> TRUE, acs |-> acs] @@ policy2env(transformer, acs)
    /\ UNCHANGED <<qvars, evars, avars, bvars, rvars>>

NextP2E == \E acs \in PolicyActions : NumpyToDict(acs)

\* ---------------------------------------------------- batch_recursive_objects
\* A Python object handed to batch_recursive_objects: its runtime type (tag),
\* for a dict its keys and for a named tuple its _fields (keys), for a
\* container its values in order (items), for an array its shape, the batch
\* axis first.
NoneObj == [tag |-> "None", keys |-> <<>>, items |-> <<>>, shape |-> <<>>]

StrObj == [tag |-> "str", keys |-> <<>>, items |-> <<>>, shape |-> <<>>]

Array(tag, shape) == [tag |-> tag, keys |-> <<>>, items |-> <<>>, shape |-> shape]

Container(tag, keys, items) == [tag |-> tag, keys |-> keys, items |-> items, shape |-> <<>>]

Containers == {"dict", "list", "namedtuple", "tuple"}

\* [d[k] for d in ls], [l[i] for l in ls], [getattr(l, field) for l in ls]
Children(ls, i) == [r \in 1 .. Len(ls) |-> ls[r].items[i]]

RECURSIVE SumBatch(_, _)
SumBatch(ls, n) == IF n = 0 THEN 0 ELSE ls[n].shape[1] + SumBatch(ls, n - 1)

\* Whether np.concatenate(ls, axis=0) / th.cat(ls, dim=0) accepts the arrays:
\* the same number of axes and the same size on every axis but the first.
Concatenable(ls) ==
    \A r \in 1 .. Len(ls) :
        /\ Len(ls[r].shape) = Len(ls[1].shape)
        /\ \A a \in 2 .. Len(ls[1].shape) : ls[r].shape[a] = ls[1].shape[a]

Concatenate_mutant_first_only(ls) ==
    Array(ls[1].tag, [a \in 1 .. Len(ls[1].shape) |-> ls[1].shape[a]])

\* np.concatenate(ls, axis=0) / th.cat(ls, dim=0) on Concatenable(ls): the
\* batch axis is the sum of the arrays' batch axes, the other axes are kept.
Concatenate(ls) ==
    Array(ls[1].tag, [a \in 1 .. Len(ls[1].shape) |->
                         IF a = 1 THEN SumBatch(ls, Len(ls)) ELSE ls[1].shape[a]])

Raised(exc, msg) == [outcome |-> exc, msg |-> msg, out |-> NoneObj]

ReturnedObj(o) == [outcome |-> "returned", msg |-> "", out |-> o]

\* The leaf branch (the final else).  With check_shape the assert reads
\* e.shape of every element, the batch axis included; an object without a
\* shape attribute raises AttributeError there.  th is whether the module
\* global th is bound (to torch): no statement of the module binds it, and
\* isinstance(first, th.Tensor) raises NameError when nothing does.
BatchLeaf(ls, check_shape, th) ==
    LET first == ls[1]
    IN  IF check_shape /\ first.tag \notin {"ndarray", "Tensor"}
        THEN Raised("AttributeError", "no attribute shape")
        ELSE IF check_shape /\ \E r \in 1 .. Len(ls) : ls[r].shape # first.shape
        THEN Raised("AssertionError", "All objects must have the same shape")
        ELSE IF first.tag = "ndarray"
        THEN IF Concatenable(ls) THEN ReturnedObj(Concatenate(ls))
             ELSE Raised("ValueError", "np.concatenate: dimensions must match")
        ELSE IF ~th
        THEN Raised("NameError", "name th is not defined")
        ELSE IF first.tag = "Tensor"
        THEN IF Concatenable(ls) THEN ReturnedObj(Concatenate(ls))
             ELSE Raised("RuntimeError", "th.cat: sizes must match")
        ELSE Raised("ValueError", "Unsupported type")

\* batch_recursive_objects(ls, check_shape) on records of identical structure.
\* The recursive calls pass ls only, so below the top level check_shape has its
\* default, False.  The values are batched in order; the first one that raises
\* ends the call.
RECURSIVE batch_recursive_objects(_, _, _)
batch_recursive_objects(ls, check_shape, th) ==
    LET first == ls[1]
        sub(i) == batch_recursive_objects(Children(ls, i), FALSE, th)
        bad == {i \in 1 .. Len(first.items) : sub(i).outcome # "returned"}
    IN  IF first.tag \in Containers
        THEN IF bad = {}
             THEN ReturnedObj(Container(first.tag, first.keys,
                                        [i \in 1 .. Len(first.items) |-> sub(i).out]))
             ELSE sub(CHOOSE i \in bad : \A j \in bad : i <= j)
        ELSE IF first.tag = "None"
        THEN ReturnedObj(NoneObj)
        ELSE BatchLeaf(ls, check_shape, th)

\* ---------------------------------------------- batch_recursive_objects: state
\* Sizes of the arrays' second axis.
Dims == {3, 4}

\* n records that are each one leaf: arrays of any batch size and second axis,
\* torch tensors, nothing (None), plain strings.
ArrayLists(n) ==
    {[r \in 1 .. n |-> Array("ndarray", <<bs[r], ds[r]>>)] :
        bs \in [1 .. n -> 1 .. MaxBatch], ds \in [1 .. n -> Dims]}

TensorLists(n) == {[r \in 1 .. n |-> Array("Tensor", <<r, d>>)] : d \in Dims}

NoneLists(n) == {[r \in 1 .. n |-> NoneObj]}

StrLists(n) == {[r \in 1 .. n |-> StrObj]}

LeafLists(n) == ArrayLists(n) \cup TensorLists(n) \cup NoneLists(n) \cup StrLists(n)

\* n containers of one type and the same keys, record r holding the r-th
\* element of each list of Xs.
Wrap(tag, keys, Xs) ==
    [r \in 1 .. Len(Xs[1]) |-> Container(tag, keys, [i \in 1 .. Len(Xs) |-> Xs[i][r]])]

\* Lists of n structurally identical records: a leaf; a dict of two leaves; a
\* tuple of a leaf and None; a list holding a named tuple of one leaf.
RecordLists(n) ==
    LeafLists(n)
    \cup {Wrap("dict", <<"a", "b">>, <<X, Y>>) : X \in LeafLists(n), Y \in LeafLists(n)}
    \cup {Wrap("tuple", <<>>, <<X, Y>>) : X \in LeafLists(n), Y \in NoneLists(n)}
    \cup {Wrap("list", <<>>, <<Wrap("namedtuple", <<"obs">>, <<X>>)>>) : X \in LeafLists(n)}

NoBatch == [called |-> FALSE, ls |-> <<>>, check_shape |-> FALSE, th |-> FALSE,
            outcome |-> "none", msg |-> "", out |-> NoneObj]

BatchInit == bat = NoBatch

\* batch_recursive_objects(ls, check_shape)
Batch(ls, check_shape, th) ==
    /\ ~bat.called
    /\ bat' = [called |-> TRUE, ls |-> ls, check_shape |-> check_shape, th |-> th]
               @@ batch_recursive_objects(ls, check_shape, th)
    /\ UNCHANGED <<qvars, evars, avars, pvars, rvars>>

NextB ==
    \E n \in 1 .. MaxRecords : \E ls \in RecordLists(n) :
        \E check_shape \in BOOLEAN : \E th \in BOOLEAN : Batch(ls, check_shape, th)

\* ------------------------------------------------------------------ Rescaler
\* The videos run() lists (the keys holding "video."), in sorted order.  Each
\* lies in a directory of its own, so each has its own rescaled output key.
Videos == 1 .. MaxVideos

\* Times: LastModified of an object uploaded before this process started is 1
\* or 3; an overwrite_older_than of 2 lies between them, one of 4 after both.
\* An object uploaded by this process gets the later time.
UploadTime == 3

NoObject == [exists |-> FALSE, last_modified |-> 0, uploads |-> 0]

Objects == {NoObject} \cup [exists : {TRUE}, last_modified : {1, UploadTime}, uploads : {0}]

\* overwrite_older_than: None (set = FALSE) or a datetime.
Configs ==
    [n_threads : 1 .. MaxThreads,
     overwrite_older_than : {[set |-> FALSE, at |-> 0]} \cup [set : {TRUE}, at : {2, 4}]]

ShouldOverwrite_mutant_always(cfg, last_modified) == TRUE

\* self.config.overwrite_older_than and last_modified < self.config.overwrite_older_than
ShouldOverwrite(cfg, last_modified) ==
    cfg.overwrite_older_than.set /\ last_modified < cfg.overwrite_older_than.at

\* One _check_and_rescale_video call: where it is (pc); what head_object gave
\* (head, last_modified); which branch called _rescale_video (path); the
\* argument of its update_wandb_stats call (stat); what it has done so far;
\* the counter value its += has loaded and not yet stored (loaded).
NoTask == [pc |-> "none", head |-> "none", last_modified |-> 0, path |-> "none",
           stat |-> "none", downloads |-> 0, uploads |-> 0, counted |-> 0, loaded |-> 0]

\* Rescaler.__init__: counters at 0, the lock free.
NewRescaler == [n_rescaled |-> 0, n_skipped |-> 0, n_errors |-> 0, lock |-> 0]

NewRun == [pc |-> "start", i |-> 1, seen |-> {}]

\* No Rescaler: a bucket without objects and the default configuration.
RescalerIdle ==
    /\ config = [n_threads |-> 1, overwrite_older_than |-> [set |-> FALSE, at |-> 0]]
    /\ bucket = [v \in Videos |-> NoObject]
    /\ bucket0 = bucket
    /\ rescaler = NewRescaler
    /\ wandb_log = <<>>
    /\ main = NewRun
    /\ tasks = [v \in Videos |-> NoTask]

RescalerInit ==
    /\ config \in Configs
    /\ bucket \in [Videos -> Objects]
    /\ bucket0 = bucket
    /\ rescaler = NewRescaler
    /\ wandb_log = <<>>
    /\ main = NewRun
    /\ tasks = [v \in Videos |-> NoTask]

Running(v) == tasks[v].pc \notin {"none", "queued", "done", "raised"}

Finished(v) == tasks[v].pc \in {"done", "raised"}

others == <<qvars, evars, avars, pvars, bvars>>

\* run(): the listing is done; the loop over the videos begins.
RunStart ==
    /\ main.pc = "start"
    /\ main' = [main EXCEPT !.pc = "loop"]
    /\ UNCHANGED <<config, bucket, bucket0, rescaler, wandb_log, tasks, others>>

\* n_threads == 1: the loop body calls _check_and_rescale_video(video_path).
CallInline ==
    /\ main.pc = "loop"
    /\ config.n_threads = 1
    /\ main.i \in Videos
    /\ tasks[main.i].pc = "none"
    /\ tasks' = [tasks EXCEPT ![main.i].pc = "head"]
    /\ UNCHANGED <<config, bucket, bucket0, rescaler, wandb_log, main, others>>

\* n_threads == 1: the call returned, the loop goes on; or it raised, and the
\* exception leaves run().
LoopNext ==
    /\ main.pc = "loop"
    /\ config.n_threads = 1
    /\ main.i \in Videos
    /\ Finished(main.i)
    /\ main' = IF tasks[main.i].pc = "raised"
               THEN [main EXCEPT !.pc = "raised"]
               ELSE [main EXCEPT !.i = @ + 1]
    /\ UNCHANGED <<config, bucket, bucket0, rescaler, wandb_log, tasks, others>>

\* n_threads > 1: the loop body submits the call to the thread pool.
Submit ==
    /\ main.pc = "loop"
    /\ config.n_threads > 1
    /\ main.i \in Videos
    /\ tasks' = [tasks EXCEPT ![main.i].pc = "queued"]
    /\ main' = [main EXCEPT !.i = @ + 1]
    /\ UNCHANGED <<config, bucket, bucket0, rescaler, wandb_log, others>>

\* The loop is over.  With n_threads == 1 run() returns; otherwise it goes on
\* to the as_completed loop.
LoopEnd ==
    /\ main.pc = "loop"
    /\ main.i \notin Videos
    /\ main' = [main EXCEPT !.pc = IF config.n_threads > 1 THEN "wait" ELSE "returned"]
    /\ UNCHANGED <<config, bucket, bucket0, rescaler, wandb_log, tasks, others>>

\* A free worker of the pool (max_workers = n_threads) takes the oldest queued
\* call.
StartTask(v) ==
    /\ tasks[v].pc = "queued"
    /\ \A w \in Videos : w < v => tasks[w].pc # "queued"
    /\ Cardinality({w \in Videos : Running(w)}) < config.n_threads
    /\ tasks' = [tasks EXCEPT ![v].pc = "head"]
    /\ UNCHANGED <<config, bucket, bucket0, rescaler, wandb_log, main, others>>

\* as_completed yields a completed future and future.result() returns, or
\* raises what the call raised, which leaves run().
FutureResult(v) ==
    /\ main.pc = "wait"
    /\ v \notin main.seen
    /\ Finished(v)
    /\ main' = IF tasks[v].pc = "raised"
               THEN [main EXCEPT !.pc = "raised", !.seen = @ \cup {v}]
               ELSE [main EXCEPT !.seen = @ \cup {v}]
    /\ UNCHANGED <<config, bucket, bucket0, rescaler, wandb_log, tasks, others>>

\* as_completed has yielded every future: run() returns.
RunReturn ==
    /\ main.pc = "wait"
    /\ main.seen = Videos
    /\ main' = [main EXCEPT !.pc = "returned"]
    /\ UNCHANGED <<config, bucket, bucket0, rescaler, wandb_log, tasks, others>>

\* head_object on the rescaled key.  It returns the object's LastModified; or
\* raises ClientError 404 when there is no object; or fails otherwise, with a
\* ClientError of another code (counted as an error) or with an exception that
\* is no ClientError (which leaves the call).
HeadObject(v, failure) ==
    /\ tasks[v].pc = "head"
    /\ LET obj == bucket[v]
           t == tasks[v]
       IN  tasks' = [tasks EXCEPT ![v] =
              IF failure = "ClientError"
              THEN [t EXCEPT !.head = "ClientError", !.pc = "acquire", !.stat = "error"]
              ELSE IF failure = "Exception"
              THEN [t EXCEPT !.head = "Exception", !.pc = "raised"]
              ELSE IF ~obj.exists
              THEN [t EXCEPT !.head = "404", !.pc = "download", !.path = "missing"]
              ELSE IF ShouldOverwrite(config, obj.last_modified)
              THEN [t EXCEPT !.head = "found", !.last_modified = obj.last_modified,
                             !.pc = "download", !.path = "overwrite"]
              ELSE [t EXCEPT !.head = "found", !.last_modified = obj.last_modified,
                             !.pc = "acquire", !.stat = "skipped"]]
    /\ UNCHANGED <<config, bucket, bucket0, rescaler, wandb_log, main, others>>

\* Where an exception of kind exc raised inside _rescale_video takes the call t.
\* In the overwrite branch only a ClientError is caught: code 404 is taken for
\* "the output does not exist" and _rescale_video is called again in the inner
\* try; another code is counted as an error; anything else leaves the call.
\* In the inner try of the 404 branch every exception is counted as an error.
RescaleRaised(t, exc) ==
    IF t.path = "missing"
    THEN [t EXCEPT !.pc = "acquire", !.stat = "error"]
    ELSE IF exc = "ClientError404"
    THEN [t EXCEPT !.pc = "download", !.path = "missing"]
    ELSE IF exc = "ClientError"
    THEN [t EXCEPT !.pc = "acquire", !.stat = "error"]
    ELSE [t EXCEPT !.pc = "raised"]

\* _rescale_video, first part: download_file and _recode_video.  download_file
\* can raise a ClientError, either can raise another exception.
Download(v, exc) ==
    /\ tasks[v].pc = "download"
    /\ LET t == [tasks[v] EXCEPT !.downloads = @ + 1]
       IN  tasks' = [tasks EXCEPT ![v] =
              IF exc = "none" THEN [t EXCEPT !.pc = "upload"] ELSE RescaleRaised(t, exc)]
    /\ UNCHANGED <<config, bucket, bucket0, rescaler, wandb_log, main, others>>

\* _rescale_video, second part: upload_file puts the new object, or raises (an
\* S3UploadFailedError, no ClientError).  After it the overwrite branch calls
\* update_wandb_stats(skipped=False); the inner try of the 404 branch has no
\* statement after _rescale_video, and the call returns.
Upload(v, exc) ==
    /\ tasks[v].pc = "upload"
    /\ LET t == tasks[v]
       IN  IF exc = "none"
           THEN /\ bucket' = [bucket EXCEPT ![v] =
                                 [exists |-> TRUE, last_modified |-> UploadTime,
                                  uploads |-> @.uploads + 1]]
                /\ tasks' = [tasks EXCEPT ![v] =
                                IF t.path = "overwrite"
                                THEN [t EXCEPT !.uploads = @ + 1, !.pc = "acquire",
                                               !.stat = "rescaled"]
                                ELSE [t EXCEPT !.uploads = @ + 1, !.pc = "done"]]
           ELSE /\ bucket' = bucket
                /\ tasks' = [tasks EXCEPT ![v] = RescaleRaised(t, exc)]
    /\ UNCHANGED <<config, bucket0, rescaler, wandb_log, main, others>>

Acquire_mutant_no_lock(v) ==
    /\ tasks[v].pc = "acquire"
    /\ rescaler' = [rescaler EXCEPT !.lock = v]
    /\ tasks' = [tasks EXCEPT ![v].pc = "increment"]
    /\ UNCHANGED <<config, bucket, bucket0, wandb_log, main, others>>

\* update_wandb_stats: with self._wandb_lock, entered when the lock is free.
Acquire(v) ==
    /\ tasks[v].pc = "acquire"
    /\ rescaler.lock = 0
    /\ rescaler' = [rescaler EXCEPT !.lock = v]
    /\ tasks' = [tasks EXCEPT ![v].pc = "increment"]
    /\ UNCHANGED <<config, bucket, bucket0, wandb_log, main, others>>

\* The counter update_wandb_stats(skipped, error) adds to.
Counter(stat) ==
    IF stat = "skipped" THEN "n_skipped"
    ELSE IF stat = "error" THEN "n_errors"
    ELSE "n_rescaled"

\* update_wandb_stats: the if / elif / else picks the counter, and its += 1
\* first loads the counter's value.
Increment(v) ==
    /\ tasks[v].pc = "increment"
    /\ tasks' = [tasks EXCEPT ![v].pc = "store",
                              ![v].loaded = rescaler[Counter(tasks[v].stat)]]
    /\ UNCHANGED <<config, bucket, bucket0, rescaler, wandb_log, main, others>>

\* update_wandb_stats: the += 1 stores the loaded value plus 1.
Store(v) ==
    /\ tasks[v].pc = "store"
    /\ rescaler' = [rescaler EXCEPT ![Counter(tasks[v].stat)] = tasks[v].loaded + 1]
    /\ tasks' = [tasks EXCEPT ![v].pc = "log", ![v].counted = @ + 1, ![v].loaded = 0]
    /\ UNCHANGED <<config, bucket, bucket0, wandb_log, main, others>>

\* update_wandb_stats: wandb.log of the three counters, then the lock is
\* released and the call of _check_and_rescale_video returns.
Log(v) ==
    /\ tasks[v].pc = "log"
    /\ wandb_log' = Append(wandb_log, <<rescaler.n_rescaled, rescaler.n_skipped,
                                        rescaler.n_errors>>)
    /\ rescaler' = [rescaler EXCEPT !.lock = 0]
    /\ tasks' = [tasks EXCEPT ![v].pc = "done"]
    /\ UNCHANGED <<config, bucket, bucket0, main, others>>

NextR ==
    \/ RunStart
    \/ CallInline
    \/ LoopNext
    \/ Submit
    \/ LoopEnd
    \/ \E v \in Videos : StartTask(v)
    \/ \E v \in Videos : FutureResult(v)
    \/ RunReturn
    \/ \E v \in Videos : \E failure \in {"none", "ClientError", "Exception"} :
          HeadObject(v, failure)
    \/ \E v \in Videos : \E exc \in {"none", "ClientError404", "ClientError", "Exception"} :
          Download(v, exc)
    \/ \E v \in Videos : \E exc \in {"none", "Exception"} : Upload(v, exc)
    \/ \E v \in Videos : Acquire(v)
    \/ \E v \in Videos : Increment(v)
    \/ \E v \in Videos : Store(v)
    \/ \E v \in Videos : Log(v)

\* ------------------------------------------------------- quantizer: actions
\* CameraQuantizer(...): a ValueError from the scheme validator, or the object.
\* One quantizer is built per run: its attributes are never reassigned.
Construct(args) ==
    /\ ~ctor.called
    /\ ctor' = [called |-> TRUE, args |-> args,
                outcome |-> IF CameraQuantizerAccepts(args)
                            THEN "constructed" ELSE "ValueError"]
    /\ quantizer' = IF CameraQuantizerAccepts(args)
                    THEN CameraQuantizer(args) ELSE quantizer
    /\ d_prev' = NoCall
    /\ d_last' = NoCall
    /\ u_last' = NoDecode
    /\ UNCHANGED <<evars, avars, nvars>>

\* quantizer.discretize(xy)
Discretize(xy) ==
    /\ quantizer.live
    /\ d_prev' = d_last
    /\ d_last' = IF DiscretizeFinite(quantizer)
                 THEN [called |-> TRUE, xy |-> xy, finite |-> TRUE,
                       bin |-> discretize(quantizer, xy)]
                 ELSE [called |-> TRUE, xy |-> xy, finite |-> FALSE, bin |-> 0]
    /\ u_last' = NoDecode
    /\ UNCHANGED <<quantizer, ctor, evars, avars, nvars>>

\* quantizer.undiscretize(bin) on the bin the last discretize returned
Undiscretize ==
    /\ quantizer.live
    /\ d_last.called
    /\ d_last.finite
    /\ u_last' = [called |-> TRUE, xy |-> d_last.xy, bin |-> d_last.bin]
                  @@ undiscretize(quantizer, d_last.bin)
    /\ UNCHANGED <<quantizer, ctor, d_prev, d_last, evars, avars, nvars>>

NextQ ==
    \/ \E args \in QuantizerArgs : Construct(args)
    \/ \E xy \in Deltas : Discretize(xy)
    \/ Undiscretize

\* ---------------------------------------------- mu-law quantizers: actions
\* Mu-law quantizers over the ActionTransformer's default range and the
\* largest small one, with a binsize of 1 or the default 2 (both divide the
\* range) and every whole mu up to MaxMuLaw.
MuLawArgs ==
    [camera_maxval : {MaxMaxval, DefaultCameraMaxval},
     camera_binsize : {1, DefaultCameraBinsize},
     quantization_scheme : {MU_LAW}, mu : 1 .. MaxMuLaw]

\* The deltas within [-maxval, maxval] of the quantizer q, in units.
InRange(q) == ((0 - q.camera_maxval) * Units) .. (q.camera_maxval * Units)

\* One quantizer, one discretize of an in-range delta, its undiscretize.
NextMu ==
    \/ \E args \in MuLawArgs : Construct(args)
    \/ \E xy \in InRange(quantizer) : ~d_last.called /\ Discretize(xy)
    \/ Undiscretize

\* ---------------------------------------------------------- specifications
NewInit == NumpyInit /\ BatchInit /\ RescalerIdle

\* A Rescaler constructed on any configuration and any bucket, run() not yet
\* called; the decoder, transformer and quantizer untouched.
InitR == QuantizerInit /\ EventInit /\ TransformerInit /\ NumpyInit /\ BatchInit /\ RescalerInit

Init == QuantizerInit /\ EventInit /\ TransformerInit /\ NewInit

\* The transformer is handed any EnvAction of EnvActions.
InitAT ==
    /\ QuantizerInit
    /\ EventInit
    /\ transformer = ActionTransformer(DefaultKwargs)
    /\ at_in \in EnvActions
    /\ a2p = NoResult
    /\ d2n = NoResult
    /\ p2e = NoResult
    /\ NewInit

SpecEv == Init /\ [][NextEv]_vars

SpecEvSeq == Init /\ [][NextEvSeq]_vars

SpecAT == InitAT /\ [][NextAT]_vars

SpecQ == Init /\ [][NextQ]_vars

SpecP2E == Init /\ [][NextP2E]_vars

SpecB == Init /\ [][NextB]_vars

SpecMu == Init /\ [][NextMu]_vars

SpecR == InitR /\ [][NextR]_vars

\* ------------------------------------------------------- quantizer: claims
Linear(q) == q.live /\ q.quantization_scheme = LINEAR

\* floor(2*maxval/binsize) for binsize > 0
LastBin(q) == (2 * q.camera_maxval) \div q.camera_binsize

\* C1: linear scheme, maxval > 0, binsize > 0, -maxval <= x <= maxval:
\* undiscretize(discretize(x)) differs from x by at most binsize.
C1_RoundTripLinear ==
    (/\ u_last.called
     /\ Linear(quantizer)
     /\ quantizer.camera_maxval > 0
     /\ quantizer.camera_binsize > 0
     /\ Abs(u_last.xy) <= quantizer.camera_maxval * Units)
    => Abs(u_last.lin - u_last.xy) <= quantizer.camera_binsize * Units

\* A round trip of an in-range delta that does not come back exactly.
C1_Witness ==
    /\ u_last.called
    /\ Linear(quantizer)
    /\ quantizer.camera_maxval = MaxMaxval
    /\ quantizer.camera_binsize > 1
    /\ Abs(u_last.xy) <= quantizer.camera_maxval * Units
    /\ u_last.lin # u_last.xy

\* C2: every value discretize returns, for any delta and any configuration the
\* constructor accepts, is a bin index in [0, floor(2*maxval/binsize)].  Stated
\* for the accepted configurations with maxval > 0, binsize > 0 and mu > 0, where
\* floor(2*maxval/binsize) is defined and the arithmetic is finite.
C2_BinInRange ==
    (/\ d_last.called
     /\ quantizer.camera_maxval > 0
     /\ quantizer.camera_binsize > 0
     /\ quantizer.mu > 0)
    => /\ d_last.finite
       /\ 0 <= d_last.bin
       /\ d_last.bin <= LastBin(quantizer)

\* C3: linear scheme (binsize > 0): discretize is non-decreasing, x <= y implies
\* discretize(x) <= discretize(y), ties and out-of-range deltas included.
C3_Monotone ==
    (/\ d_prev.called
     /\ d_last.called
     /\ Linear(quantizer)
     /\ quantizer.camera_binsize > 0)
    => /\ d_prev.xy <= d_last.xy => d_prev.bin <= d_last.bin
       /\ d_last.xy <= d_prev.xy => d_last.bin <= d_prev.bin

\* Whether xy is a half-way tie between two bins of the linear quantizer q.
Tie(q, xy) ==
    (2 * (xy + q.camera_maxval * Units)) % (2 * q.camera_binsize * Units)
        = q.camera_binsize * Units

\* Two ties in a row, in range, that land in different bins, and (separately
\* reachable) a tie followed by a delta beyond maxval.
C3_Witness ==
    /\ d_prev.called
    /\ d_last.called
    /\ Linear(quantizer)
    /\ quantizer.camera_maxval > 0
    /\ quantizer.camera_binsize > 0
    /\ Tie(quantizer, d_prev.xy)
    /\ Abs(d_prev.xy) < quantizer.camera_maxval * Units
    /\ d_prev.xy < d_last.xy
    /\ d_prev.bin < d_last.bin
    /\ \/ d_last.xy > quantizer.camera_maxval * Units
       \/ Tie(quantizer, d_last.xy) /\ d_last.xy < quantizer.camera_maxval * Units

\* The parameter domain of section 4.1: scheme one of the two names, mu > 0,
\* maxval > 0, binsize > 0 and binsize dividing the range 2*maxval evenly.
ValidConfiguration(args) ==
    /\ args.quantization_scheme \in {LINEAR, MU_LAW}
    /\ args.mu > 0
    /\ args.camera_maxval > 0
    /\ args.camera_binsize > 0
    /\ (2 * args.camera_maxval) % args.camera_binsize = 0

\* C4: constructing a CameraQuantizer with any parameter outside its valid
\* domain fails with an error, and no quantizer with such parameters exists.
C4_InvalidRejected ==
    (ctor.called /\ ~ValidConfiguration(ctor.args))
    => ctor.outcome = "ValueError" /\ ~quantizer.live

\* --------------------------------------------------- event decoder: claims
\* What the call returns for ev on the freshly imported module.
FreshResult(ev) ==
    LET r == annotation_action_to_env_action([i \in {NOOP} |-> NOOP_ACTION],
                                             [i \in {NOOP} |-> <<0, 0>>],
                                             [KEYBOARD_BUTTON_MAPPING |-> KEYBOARD_BUTTON_MAPPING,
                                              IGNORED_KEYS |-> IGNORED_KEYS], 1, ev)
    IN  [value |-> Value(r.dicts, r.arrays, r.env_action),
         is_null_action |-> r.is_null_action]

\* The EnvAction the last call returned, as the heap holds it now.
Returned == Value(dicts, arrays, last.id)

HoldsMappedKey(ev) == ev.keys \cap DOMAIN KEYBOARD_BUTTON_MAPPING # {}

\* C5 (as amended): is_null_action is true for the event with no keys, zero
\* deltas and no mouse buttons, and false for every event with a held mapped
\* key, a non-zero dx, a non-zero dy, or a held mouse button of code 0 or 2.
C5_NullAction ==
    last.called =>
        /\ last.event = NoEvent => last.is_null_action
        /\ (\/ HoldsMappedKey(last.event)
            \/ last.event.dx # 0
            \/ last.event.dy # 0
            \/ 0 \in last.event.buttons
            \/ 2 \in last.event.buttons) => ~last.is_null_action

\* C5 as stated: any held mouse button is a signal that clears is_null_action.
C5_Original ==
    last.called =>
        /\ last.event = NoEvent => last.is_null_action
        /\ (\/ HoldsMappedKey(last.event)
            \/ last.event.dx # 0
            \/ last.event.dy # 0
            \/ last.event.buttons # {}) => ~last.is_null_action

\* The single signal "mouse button 2 held" clears the flag.
C5_Witness ==
    /\ last.called
    /\ last.event = [NoEvent EXCEPT !.buttons = {2}]
    /\ ~last.is_null_action

\* The camera component c is exactly d * CAMERA_SCALER when that is within
\* [-180, 180], and 0 when it is beyond or d is 0.
ExactlyScaled(c, d) ==
    IF d = 0 \/ Abs(d * CAMERA_SCALER_NUM) > 180 * CAMERA_SCALER_DEN
    THEN c = 0
    ELSE c * CAMERA_SCALER_DEN = d * CAMERA_SCALER_NUM

\* C6: each returned camera component is exactly the scaled mouse delta
\* (pitch = dy * sensitivity, yaw = dx * sensitivity, fraction kept) when its
\* absolute value is at most 180, and 0 when it is above 180 or the delta is 0.
C6_CameraExact ==
    last.called =>
        /\ ExactlyScaled(Returned.camera[1], last.event.dy)
        /\ ExactlyScaled(Returned.camera[2], last.event.dx)

\* C7: a returned button is 1 exactly when a held key maps to it, or it is
\* attack with mouse code 0 held, or use with mouse code 2 held, and 0 otherwise;
\* ignored keys, unknown keys and other mouse codes change nothing: the call
\* returns what it returns for the event without them.
C7_Buttons ==
    last.called =>
        /\ DOMAIN Returned.buttons = ButtonNames
        /\ \A b \in ButtonNames :
              Returned.buttons[b] =
                  IF \/ \E k \in last.event.keys \cap DOMAIN KEYBOARD_BUTTON_MAPPING :
                            KEYBOARD_BUTTON_MAPPING[k] = b
                     \/ b = "attack" /\ 0 \in last.event.buttons
                     \/ b = "use" /\ 2 \in last.event.buttons
                  THEN 1 ELSE 0
        /\ LET stripped == [last.event EXCEPT
                               !.keys = @ \cap DOMAIN KEYBOARD_BUTTON_MAPPING,
                               !.buttons = @ \cap {0, 2}]
           IN  /\ Returned = FreshResult(stripped).value
               /\ last.is_null_action = FreshResult(stripped).is_null_action

\* A mapped, an ignored and an unknown key held with mouse codes 0 and 1.
C7_Witness ==
    /\ last.called
    /\ last.event.keys = Keys
    /\ last.event.buttons = {0, 1}
    /\ Returned.buttons = [b \in ButtonNames |-> IF b = "use" THEN 0 ELSE 1]

\* C8: after any sequence of calls NOOP_ACTION (its camera array included), the
\* keyboard mapping and the ignored keys are as they were; an EnvAction
\* returned earlier is as it was returned; and the last call returned what the
\* same event yields on the freshly imported module.
C8_Pure ==
    /\ dicts[NOOP] = NOOP_ACTION
    /\ arrays[NOOP] = <<0, 0>>
    /\ tables = [KEYBOARD_BUTTON_MAPPING |-> KEYBOARD_BUTTON_MAPPING,
                 IGNORED_KEYS |-> IGNORED_KEYS]
    /\ kept.held => Value(dicts, arrays, kept.id) = kept.value
    /\ last.called =>
          /\ Returned = FreshResult(last.event).value
          /\ last.is_null_action = FreshResult(last.event).is_null_action

\* A later call, on another event, after a returned EnvAction with a button
\* set and a non-zero camera.
C8_Witness ==
    /\ ncalls >= 2
    /\ kept.held
    /\ kept.id # last.id
    /\ kept.value.camera # <<0, 0>>
    /\ kept.value.buttons # NOOP_ACTION.buttons
    /\ Returned.camera # kept.value.camera
    /\ Returned.buttons # kept.value.buttons
    /\ Returned.buttons # NOOP_ACTION.buttons

\* ------------------------------------------------ action transformer: claims
\* The EnvAction at_in is built purely from vocabulary entries: every button
\* of the vocabulary, and the camera.
FullVocabulary(acs) == DOMAIN acs.buttons = ButtonNames

\* Whether the delta x (in units) is a bin centre -maxval + k*binsize of q
\* within [-maxval, maxval].
OnBinCentre(q, x) ==
    /\ Abs(x) <= q.camera_maxval * Units
    /\ (x + q.camera_maxval * Units) % (q.camera_binsize * Units) = 0

RoundTripDone == p2e.called /\ p2e.outcome = "returned" /\ FullVocabulary(at_in)

C10_Total ==
    /\ a2p.called =>
          /\ a2p.outcome = "returned"
          /\ \A n \in 1 .. Len(at_in.camera) :
                /\ Len(a2p.out.buttons[n]) = Len(ButtonsALL)
                /\ \A i \in 1 .. Len(ButtonsALL) :
                      a2p.out.buttons[n][i] = Get(Element(at_in, n).buttons, ButtonsALL[i], 0)
                /\ a2p.out.camera[n] = discretize_camera(transformer, at_in.camera[n])
    /\ d2n.called =>
          /\ d2n.outcome = "returned"
          /\ Len(d2n.out.buttons) = Len(ButtonsALL)
          /\ \A i \in 1 .. Len(ButtonsALL) :
                d2n.out.buttons[i] = Get(Element(at_in, d2n.n).buttons, ButtonsALL[i], 0)
          /\ d2n.out.camera = discretize_camera(transformer, at_in.camera[d2n.n])
    /\ (a2p.called /\ d2n.called) =>
          /\ d2n.out.buttons = a2p.out.buttons[d2n.n]
          /\ d2n.out.camera = a2p.out.camera[d2n.n]

\* --------------------------------------------------- numpy_to_dict: claims
\* C11: policy2env fails (the assert on the button array's last axis), returning
\* no EnvAction, whenever the button vector's length differs from the vocabulary
\* size; when the lengths agree it returns an EnvAction with
\* EnvAction[vocabulary[i]] = vector[i] for every index i and camera equal to
\* undiscretize of the camera bin.
C11_ShapeMismatch ==
    n2d.called =>
        IF Len(n2d.acs.buttons[1]) # Len(ButtonsALL)
        THEN n2d.outcome = "AssertionError" /\ n2d.out = NoEnv
        ELSE /\ n2d.outcome = "returned"
             /\ DOMAIN n2d.out.buttons = ButtonNames
             /\ \A i \in 1 .. Len(ButtonsALL) : \A n \in 1 .. Len(n2d.acs.buttons) :
                   n2d.out.buttons[ButtonsALL[i]][n] = n2d.acs.buttons[n][i]
             /\ Len(n2d.out.camera) = Len(n2d.acs.camera)
             /\ \A n \in 1 .. Len(n2d.acs.camera) : \A c \in 1 .. 2 :
                   n2d.out.camera[n][c] =
                       [lin |-> (n2d.acs.camera[n][c] * DefaultCameraBinsize
                                     - DefaultCameraMaxval) * Units,
                        expanded |-> FALSE]

\* A button vector one longer than the vocabulary was refused.
C11_Witness ==
    /\ n2d.called
    /\ Len(n2d.acs.buttons[1]) = Len(ButtonsALL) + 1
    /\ n2d.outcome = "AssertionError"

\* ------------------------------------------ batch_recursive_objects: claims
\* The arrays of ls agree on every axis but the batch axis.
SameNonBatch(ls) ==
    \A r \in 1 .. Len(ls) : Tail(ls[r].shape) = Tail(ls[1].shape)

\* Records whose leaves are numpy arrays or None, corresponding arrays
\* agreeing on every non-batch axis.
RECURSIVE WellFormed(_)
WellFormed(ls) ==
    IF ls[1].tag \in Containers
    THEN \A i \in 1 .. Len(ls[1].items) : WellFormed(Children(ls, i))
    ELSE IF ls[1].tag = "None" THEN TRUE
    ELSE ls[1].tag = "ndarray" /\ SameNonBatch(ls)

\* Records whose leaves are numpy arrays or None.
RECURSIVE AllNumpy(_)
AllNumpy(ls) ==
    IF ls[1].tag \in Containers
    THEN \A i \in 1 .. Len(ls[1].items) : AllNumpy(Children(ls, i))
    ELSE ls[1].tag \in {"None", "ndarray"}

\* Some corresponding array leaves differ on a non-batch axis, at any depth.
RECURSIVE NonBatchMismatch(_)
NonBatchMismatch(ls) ==
    IF ls[1].tag \in Containers
    THEN \E i \in 1 .. Len(ls[1].items) : NonBatchMismatch(Children(ls, i))
    ELSE ls[1].tag = "ndarray" /\ ~SameNonBatch(ls)

\* Some corresponding array leaves differ in batch size, at any depth.
RECURSIVE BatchSizesDiffer(_)
BatchSizesDiffer(ls) ==
    IF ls[1].tag \in Containers
    THEN \E i \in 1 .. Len(ls[1].items) : BatchSizesDiffer(Children(ls, i))
    ELSE ls[1].tag = "ndarray" /\ \E r \in 1 .. Len(ls) : ls[r].shape[1] # ls[1].shape[1]

\* The record o holds a plain string leaf.
RECURSIVE HasStr(_)
HasStr(o) ==
    IF o.tag \in Containers
    THEN \E i \in 1 .. Len(o.items) : HasStr(o.items[i])
    ELSE o.tag = "str"

\* Records whose leaves are numpy arrays of one and the same shape, None, or
\* plain strings: nothing but a string can make the call fail.
RECURSIVE OnlyStrCanFail(_)
OnlyStrCanFail(ls) ==
    IF ls[1].tag \in Containers
    THEN \A i \in 1 .. Len(ls[1].items) : OnlyStrCanFail(Children(ls, i))
    ELSE \/ ls[1].tag \in {"None", "str"}
         \/ ls[1].tag = "ndarray" /\ \A r \in 1 .. Len(ls) : ls[r].shape = ls[1].shape

\* out has the non-leaf structure of the records of ls, None where they hold
\* None, and each array leaf of out has the non-batch axes of the records'
\* leaves and a batch axis that is the sum of theirs.
RECURSIVE BatchLaw(_, _)
BatchLaw(out, ls) ==
    IF ls[1].tag \in Containers
    THEN /\ out.tag = ls[1].tag
         /\ out.keys = ls[1].keys
         /\ Len(out.items) = Len(ls[1].items)
         /\ \A i \in 1 .. Len(ls[1].items) : BatchLaw(out.items[i], Children(ls, i))
    ELSE IF ls[1].tag = "None" THEN out = NoneObj
    ELSE /\ out.tag = ls[1].tag
         /\ out.tag \in {"ndarray", "Tensor"}
         /\ Len(out.shape) = Len(ls[1].shape)
         /\ out.shape[1] = SumBatch(ls, Len(ls))
         /\ Tail(out.shape) = Tail(ls[1].shape)

\* C12: for n >= 1 structurally identical records (numpy leaves agreeing on the
\* non-batch axes), batch_recursive_objects(ls) returns, and whatever it returns
\* has the records' non-leaf structure (keys, list length, tuple arity, named
\* tuple fields, None where they hold None), each array leaf with batch-axis
\* size the sum of the records' batch-axis sizes.
C12_BatchShapeLaw ==
    bat.called =>
        /\ (~bat.check_shape /\ WellFormed(bat.ls)) => bat.outcome = "returned"
        /\ bat.outcome = "returned" => BatchLaw(bat.out, bat.ls)

\* Two dicts batched, the arrays under one key of batch sizes 1 and 2, the
\* arrays under the other of batch sizes 2 and 2.
C12_Witness ==
    /\ bat.called
    /\ ~bat.check_shape
    /\ Len(bat.ls) = 2
    /\ bat.ls[1] = Container("dict", <<"a", "b">>,
                             <<Array("ndarray", <<1, 3>>), Array("ndarray", <<2, 4>>)>>)
    /\ bat.ls[2] = Container("dict", <<"a", "b">>,
                             <<Array("ndarray", <<2, 3>>), Array("ndarray", <<2, 4>>)>>)
    /\ bat.outcome = "returned"
    /\ bat.out = Container("dict", <<"a", "b">>,
                           <<Array("ndarray", <<3, 3>>), Array("ndarray", <<4, 4>>)>>)

\* C13: with check_shape = True the call raises the shape check's error (the
\* assert "All objects must have the same shape") whenever two records'
\* corresponding array leaves differ on a non-batch axis, at any nesting depth.
C13_ShapeCheckedAtDepth ==
    (/\ bat.called
     /\ bat.check_shape
     /\ AllNumpy(bat.ls)
     /\ NonBatchMismatch(bat.ls))
    => bat.outcome = "AssertionError"

\* C14: with check_shape = True only the non-batch axes are compared: records
\* whose leaves agree on them but differ in batch size are accepted and give
\* what the call gives without the check.
C14_BatchAxisNotCompared ==
    (/\ bat.called
     /\ bat.check_shape
     /\ WellFormed(bat.ls)
     /\ BatchSizesDiffer(bat.ls))
    => /\ bat.outcome = "returned"
       /\ bat.out = batch_recursive_objects(bat.ls, FALSE, bat.th).out
       /\ BatchLaw(bat.out, bat.ls)

\* C15: when the leaf reached in the first record is a plain string, the call
\* fails with the ValueError "Unsupported type", with or without check_shape:
\* it returns nothing and raises no other kind of error.  Stated for the runs
\* in which the name th is bound, the case in the claim's favour.
C15_UnsupportedLeafType ==
    (/\ bat.called
     /\ bat.th
     /\ HasStr(bat.ls[1])
     /\ OnlyStrCanFail(bat.ls))
    => /\ bat.outcome = "ValueError"
       /\ bat.msg = "Unsupported type"

\* ------------------------------------------------ mu-law quantizers: claims
\* The sign of g - num/den, where g = maxval * ((1 + mu)^(a/maxval) - 1) / mu is
\* the mu-law expansion of a >= 0 degrees (maxval > 0, mu > 0, den > 0): for
\* num >= 0 that of (1 + mu)^a * (maxval*den)^maxval - (maxval*den + mu*num)^maxval.
ExpandedCompare(q, a, num, den) ==
    IF num < 0 THEN 1
    ELSE 0 - ComparePowers(q.camera_maxval * den + q.mu * num, q.camera_maxval,
                           1 + q.mu, a, q.camera_maxval * den, q.camera_maxval)

\* The sign of d - num/den for the value d that undiscretize returned as u
\* (u.lin in units, expanded by the mu-law when u.expanded).
DecodedCompare(q, u, num, den) ==
    IF ~u.expanded THEN Sign(u.lin * den - num * Units)
    ELSE IF u.lin >= 0 THEN ExpandedCompare(q, u.lin \div Units, num, den)
    ELSE 0 - ExpandedCompare(q, (0 - u.lin) \div Units, 0 - num, den)

\* |d - xy| <= num/den for the value d that undiscretize returned as u and the
\* delta xy in units.
WithinOf(q, u, xy, num, den) ==
    /\ DecodedCompare(q, u, xy * den + num * Units, den * Units) <= 0
    /\ DecodedCompare(q, u, xy * den - num * Units, den * Units) >= 0

MuLaw(q) == q.live /\ q.quantization_scheme = MU_LAW

MuRoundTripDone ==
    /\ u_last.called
    /\ MuLaw(quantizer)
    /\ quantizer.camera_maxval > 0
    /\ quantizer.camera_binsize > 0
    /\ quantizer.mu > 0
    /\ Abs(u_last.xy) <= quantizer.camera_maxval * Units

\* C16 as stated: mu_law scheme, every mu > 0, -maxval <= x <= maxval:
\* undiscretize(discretize(x)) differs from x by at most binsize.
C16_Original ==
    MuRoundTripDone => WithinOf(quantizer, u_last, u_last.xy, quantizer.camera_binsize, 1)

\* C16 (as amended): mu_law scheme, mu > 0, binsize dividing 2*maxval,
\* -maxval <= x <= maxval: undiscretize(discretize(x)) differs from x by at most
\* binsize * (1 + mu)*(6 + mu) / (12 + 8*mu), which is at most binsize exactly
\* for mu <= 3.
C16_RoundTripMuLaw ==
    (MuRoundTripDone /\ (2 * quantizer.camera_maxval) % quantizer.camera_binsize = 0)
    => /\ WithinOf(quantizer, u_last, u_last.xy,
                   quantizer.camera_binsize * (1 + quantizer.mu) * (6 + quantizer.mu),
                   12 + 8 * quantizer.mu)
       /\ quantizer.mu <= 3 =>
             WithinOf(quantizer, u_last, u_last.xy, quantizer.camera_binsize, 1)

\* The default range and binsize with the default mu, a delta in the top bin
\* that comes back more than half a binsize away, and within one.
C16_Witness ==
    /\ MuRoundTripDone
    /\ quantizer.camera_maxval = DefaultCameraMaxval
    /\ quantizer.camera_binsize = DefaultCameraBinsize
    /\ quantizer.mu = DefaultCameraMu
    /\ u_last.lin = DefaultCameraMaxval * Units
    /\ ~WithinOf(quantizer, u_last, u_last.xy, quantizer.camera_binsize, 2)
    /\ WithinOf(quantizer, u_last, u_last.xy, quantizer.camera_binsize, 1)

\* ------------------------------------------- event decoder: the null action
\* The EnvAction v carries no active button and no camera movement.
AllZero(v) == (\A b \in DOMAIN v.buttons : v.buttons[b] = 0) /\ v.camera = <<0, 0>>

\* C17 as stated: is_null_action is true if and only if the returned EnvAction
\* has every button 0 and camera (0, 0).
C17_Original ==
    last.called => (last.is_null_action <=> AllZero(Returned))

\* C17 (as amended): is_null_action true implies that the returned EnvAction has
\* every button 0 and camera (0, 0); an EnvAction with every button 0 and camera
\* (0, 0) comes with is_null_action false exactly when the event holds a non-zero
\* dx or dy (and nothing else that sets a button), each of which left its camera
\* component 0.
C17_NullAction ==
    last.called =>
        /\ last.is_null_action => AllZero(Returned)
        /\ (AllZero(Returned) /\ ~last.is_null_action)
              <=> /\ last.event.dx # 0 \/ last.event.dy # 0
                  /\ CameraComponent(last.event.dx) = 0
                  /\ CameraComponent(last.event.dy) = 0
                  /\ ~HoldsMappedKey(last.event)
                  /\ last.event.buttons \cap {0, 2} = {}

\* A lone dy that scales beyond 180 degrees and is reset: nothing is set in the
\* EnvAction, and is_null_action is false.
C17_Witness ==
    /\ last.called
    /\ last.event = [NoEvent EXCEPT !.dy = -1207]
    /\ AllZero(Returned)
    /\ ~last.is_null_action

\* C18: with n_threads > 1, run() has neither returned nor raised while a
\* submitted call of _check_and_rescale_video is still queued or running, and
\* it returns normally only if no call raised.
C18_RunWaitsForAllTasks ==
    (config.n_threads > 1 /\ main.pc \in {"returned", "raised"}) =>
        /\ \A v \in Videos : tasks[v].pc = "none" \/ Finished(v)
        /\ main.pc = "returned" => \A v \in Videos : tasks[v].pc = "done"

Overwritable(v) ==
    /\ config.overwrite_older_than.set
    /\ tasks[v].last_modified < config.overwrite_older_than.at

\* C19: a video whose rescaled output head_object found is downloaded,
\* re-encoded or uploaded only if overwrite_older_than is set and the output's
\* LastModified is earlier; otherwise its call ends as skipped without any of
\* the three.  So with overwrite_older_than unset and every output present
\* when the Rescaler starts, no object of the bucket ever changes.
C19_ExistingOutputKept ==
    /\ \A v \in Videos :
          tasks[v].head = "found" =>
             IF Overwritable(v)
             THEN tasks[v].stat # "skipped"
             ELSE /\ tasks[v].downloads = 0
                  /\ tasks[v].uploads = 0
                  /\ tasks[v].stat = "skipped"
                  /\ bucket[v] = bucket0[v]
    /\ (~config.overwrite_older_than.set /\ \A v \in Videos : bucket0[v].exists) =>
          bucket = bucket0

C19_Witness ==
    /\ main.pc = "returned"
    /\ config.n_threads > 1
    /\ ~config.overwrite_older_than.set
    /\ \A v \in Videos : bucket0[v].exists
    /\ \A v \in Videos : tasks[v].pc = "done" /\ tasks[v].stat = "skipped"
    /\ rescaler.n_skipped = MaxVideos
    /\ bucket = bucket0

\* C20: every call of _check_and_rescale_video that has returned normally has
\* added 1 to exactly one counter (n_rescaled after an upload, n_skipped when
\* the output was kept, n_errors when rescaling failed), so that after run()
\* has returned normally the three counters sum to the number of videos.
C20_OneCounterPerCall ==
    /\ \A v \in Videos :
          tasks[v].pc = "done" =>
             /\ tasks[v].counted = 1
             /\ tasks[v].stat =
                   IF tasks[v].uploads > 0 THEN "rescaled"
                   ELSE IF tasks[v].downloads > 0 THEN "error"
                   ELSE tasks[v].stat
    /\ main.pc = "returned" =>
          rescaler.n_rescaled + rescaler.n_skipped + rescaler.n_errors = MaxVideos

\* A call in which _rescale_video raised: it began more rescales than it
\* uploaded outputs, and it is past the failed one.
RescaleFailed(v) ==
    /\ tasks[v].downloads > tasks[v].uploads
    /\ tasks[v].pc \notin {"download", "upload"}

\* C21: a failure of download, re-encode or upload in one video's call is
\* counted in n_errors and leaves the call normally, whichever branch called
\* _rescale_video and whatever n_threads is; so run() does not raise because of
\* it, and the remaining videos are still processed.
C21_RescaleFailureCounted ==
    /\ \A v \in Videos :
          RescaleFailed(v) =>
             /\ tasks[v].pc # "raised"
             /\ tasks[v].stat = "error"
             /\ tasks[v].pc = "done" => tasks[v].counted = 1
    /\ main.pc = "raised" =>
          \E v \in Videos : tasks[v].pc = "raised" /\ tasks[v].downloads = 0

\* A call that is inside the with-block of update_wandb_stats.
InUpdate(v) == tasks[v].pc \in {"increment", "store", "log"}

Incremented == {v \in Videos : tasks[v].counted > 0}

Completed == {v \in Videos : tasks[v].counted > 0 /\ tasks[v].pc = "done"}

Counters == <<rescaler.n_rescaled, rescaler.n_skipped, rescaler.n_errors>>

Total(triple) == triple[1] + triple[2] + triple[3]

Logged(i) == IF i = 0 THEN <<0, 0, 0>> ELSE wandb_log[i]

\* C22: under every interleaving at most one call is inside update_wandb_stats,
\* and it holds the lock; no increment is lost (the counters sum to the number
\* of increments made, so to k after k completed calls); the k-th logged triple
\* sums to k, is the one before it with one counter raised by 1, and the last
\* one logged is the counters' value once its call has left.
C22_UpdatesMutuallyExclusive ==
    /\ \A v, w \in Videos : InUpdate(v) /\ InUpdate(w) => v = w
    /\ \A v \in Videos : InUpdate(v) => rescaler.lock = v
    /\ Total(Counters) = Cardinality(Incremented)
    /\ Len(wandb_log) = Cardinality(Completed)
    /\ \A i \in 1 .. Len(wandb_log) :
          /\ Total(wandb_log[i]) = i
          /\ \A k \in 1 .. 3 : wandb_log[i][k] >= Logged(i - 1)[k]
    /\ (\A v \in Videos : tasks[v].pc # "log") => Logged(Len(wandb_log)) = Counters

C22_Witness ==
    /\ config.n_threads > 1
    /\ \E v, w \in Videos :
          /\ tasks[v].pc = "log"
          /\ rescaler.lock = v
          /\ tasks[w].pc = "acquire"
          /\ Total(Counters) = 1


====
